---- MODULE Spec2Model ----
(***************************************************************************)
(* The two canvas applications of the badge firmware:                      *)
(*   firmware/badge/apps/mandelbrot.py   (escape-time fractal)             *)
(*   firmware/badge/apps/rgb_nametag.py  (scrolling rainbow)               *)
(* Each application is an App object driven by the badge's scheduler:      *)
(* switch_to_foreground() activates it, run_foreground() is called once    *)
(* per tick while it is in the foreground.                                 *)
(***************************************************************************)
EXTENDS Integers, Sequences, FiniteSets, TLC

(***************************************************************************)
(* Bounds of the model.                                                    *)
(***************************************************************************)
\* The screen is x_width x y_height pixels; the firmware uses 428 x 142,
\* the model draws the dimensions from 1..MaxW and 1..MaxH.
MaxW == 4
MaxH == 4
\* The rainbow alone is also run on wider screens, 1..MaxRainbowW.
MaxRainbowW == 12
\* Scheduler ticks per activation.
MaxTicks == 2
\* styles.MAX_BG_COUNTER is drawn from {3, 6, ..., 3 * MaxBgThird}.
MaxBgThird == 4
\* The colour cycles are applied to max_counter in {3, 6, ..., 3 * MaxThird}.
MaxThird == 85
\* The escape-time evaluator is applied with iteration budgets 0..MaxIter.
MaxIter == 4
\* Python floats are modelled as binary floating point numbers with a
\* mantissa of MantBits bits (round to nearest, ties to even).
MantBits == 13

(***************************************************************************)
(* Integer helpers: Python's >>, <<, &, | and int() on (possibly negative) *)
(* integers.                                                               *)
(***************************************************************************)
\* 2^n for n in 0..30.
Pow2Table ==
    <<1, 2, 4, 8, 16, 32, 64, 128, 256, 512, 1024, 2048, 4096, 8192, 16384,
      32768, 65536, 131072, 262144, 524288, 1048576, 2097152, 4194304,
      8388608, 16777216, 33554432, 67108864, 134217728, 268435456,
      536870912, 1073741824>>

Pow2(n) == Pow2Table[n + 1]

Abs(n) == IF n < 0 THEN -n ELSE n

Sgn(n) == IF n < 0 THEN -1 ELSE IF n = 0 THEN 0 ELSE 1

\* a >> k and a << k; Python's >> rounds towards minus infinity.
Shr(a, k) == a \div Pow2(k)
Shl(a, k) == a * Pow2(k)

\* a & b and a | b on two's complement integers of unbounded width.
RECURSIVE BitAnd(_, _)
BitAnd(a, b) ==
    IF a = 0 \/ b = 0 THEN 0
    ELSE IF a = -1 THEN b
    ELSE IF b = -1 THEN a
    ELSE 2 * BitAnd(a \div 2, b \div 2) + (IF a % 2 = 1 /\ b % 2 = 1 THEN 1 ELSE 0)

RECURSIVE BitOr(_, _)
BitOr(a, b) ==
    IF a = 0 THEN b
    ELSE IF b = 0 THEN a
    ELSE IF a = -1 \/ b = -1 THEN -1
    ELSE 2 * BitOr(a \div 2, b \div 2) + (IF a % 2 = 1 \/ b % 2 = 1 THEN 1 ELSE 0)

\* int(n / d) for d > 0: the quotient truncated towards zero.
TruncDiv(n, d) == IF n >= 0 THEN n \div d ELSE -((-n) \div d)

(***************************************************************************)
(* Floating point.  A float is <<m, e>> standing for m * 2^e, with m = 0   *)
(* (and e = 0) or 2^(MantBits-1) <= |m| < 2^MantBits.  Every operation     *)
(* returns the exact result rounded to nearest, ties to even, as IEEE 754  *)
(* arithmetic does.  The exponent is unbounded: the values of the fractal  *)
(* stay far from the overflow and underflow thresholds.                    *)
(***************************************************************************)
\* The number of bits of n >= 0.
RECURSIVE BitLen(_)
BitLen(n) ==
    IF n >= 256 THEN 8 + BitLen(n \div 256)
    ELSE IF n >= 16
         THEN (IF n >= 64 THEN (IF n >= 128 THEN 8 ELSE 7)
                          ELSE (IF n >= 32 THEN 6 ELSE 5))
         ELSE (IF n >= 4 THEN (IF n >= 8 THEN 4 ELSE 3)
                         ELSE (IF n >= 2 THEN 2 ELSE n))

\* sg * q2 * 2^e, where rounding may have carried q2 up to 2^MantBits.
RoundCarry(sg, q2, e) ==
    IF q2 = Pow2(MantBits) THEN <<sg * Pow2(MantBits - 1), e + 1>>
    ELSE <<sg * q2, e>>

\* sg * (q + r / (2 * half)) * 2^e: to nearest, ties to even.
RoundShift(sg, q, r, half, e) ==
    RoundCarry(sg, IF r > half \/ (r = half /\ q % 2 = 1) THEN q + 1 ELSE q, e)

\* sg * a * 2^e for a > 0 of L bits.
RoundBits(sg, a, L, e) ==
    IF L <= MantBits
    THEN <<sg * a * Pow2(MantBits - L), e - (MantBits - L)>>
    ELSE RoundShift(sg, a \div Pow2(L - MantBits), a % Pow2(L - MantBits),
                    Pow2(L - MantBits - 1), e + (L - MantBits))

\* n * 2^e rounded to a float.
RoundToFloat(n, e) ==
    IF n = 0 THEN <<0, 0>> ELSE RoundBits(Sgn(n), Abs(n), BitLen(Abs(n)), e)

FromInt(n) == RoundToFloat(n, 0)

FNeg(a) == <<-a[1], a[2]>>

FMul(a, b) == RoundToFloat(a[1] * b[1], a[2] + b[2])

\* hi + lo for hi[2] >= lo[2], both not zero.  A lo below an eighth of the
\* last place of hi leaves hi.
FAddOrdered(hi, lo) ==
    IF hi[2] - lo[2] > MantBits + 2 THEN hi
    ELSE RoundToFloat(hi[1] * Pow2(hi[2] - lo[2]) + lo[1], lo[2])

FAdd(a, b) ==
    IF a[1] = 0 THEN b
    ELSE IF b[1] = 0 THEN a
    ELSE IF a[2] >= b[2] THEN FAddOrdered(a, b)
    ELSE FAddOrdered(b, a)

FSub(a, b) == FAdd(a, FNeg(b))

\* sg * (num / den) * 2^(e+1), with a sticky bit for the remainder.
FDivQuotient(sg, num, den, e) ==
    RoundToFloat(sg * (2 * (num \div den) + (IF num % den = 0 THEN 0 ELSE 1)), e)

\* a / b, b # 0: 16 extra quotient bits.
FDiv(a, b) ==
    FDivQuotient(Sgn(a[1]) * Sgn(b[1]), Abs(a[1]) * Pow2(16), Abs(b[1]),
                 a[2] - b[2] - 17)

\* a < b
FLt(a, b) ==
    IF Sgn(a[1]) # Sgn(b[1]) THEN Sgn(a[1]) < Sgn(b[1])
    ELSE IF a[1] = 0 THEN FALSE
    ELSE IF a[1] > 0 THEN a[2] < b[2] \/ (a[2] = b[2] /\ a[1] < b[1])
    ELSE a[2] > b[2] \/ (a[2] = b[2] /\ a[1] < b[1])

FGt(a, b) == FLt(b, a)

\* 10.0 ** 20, by repeated multiplication.
RECURSIVE FPow(_, _)
FPow(a, n) == IF n = 0 THEN FromInt(1) ELSE FMul(FPow(a, n - 1), a)


(***************************************************************************)
(* mandelbrot.py: the colour cycle, the quantizer and the escape-time      *)
(* evaluator.                                                              *)
(*                                                                         *)
(* cycle_colors divides by threshold_count = max_counter/3.  The model     *)
(* keeps every quantity as an exact fraction over max_counter:             *)
(*   v*0xFF/threshold_count = 3*v*255 / max_counter,                       *)
(*   v < threshold0  <=>  3*v < max_counter, and so on.                    *)
(* For max_counter a multiple of 3 (0xFF = 3 * 85 is one) the thresholds   *)
(* are integers, every float operation of the code is exact up to the      *)
(* final int(), and the exact fraction is what the code computes.          *)
(***************************************************************************)
\* A variant of mandelbrot_cycle_channels: the final else leaves blue at 0.
mandelbrot_cycle_channels_black_else(counter_value, max_counter) ==
    LET n0 == 3 * counter_value
        n1 == 3 * counter_value - max_counter
        n2 == 3 * counter_value - 2 * max_counter
    IN  IF counter_value >= 0 /\ n0 < max_counter
        THEN <<TruncDiv(n0 * 255, max_counter), 0, 0>>
        ELSE IF n1 >= 0 /\ n2 < 0
        THEN <<TruncDiv(255 * max_counter - n1 * 255, max_counter),
               TruncDiv(n1 * 255, max_counter), 0>>
        ELSE IF counter_value < max_counter
        THEN <<0, TruncDiv(255 * max_counter - n2 * 255, max_counter),
               TruncDiv(n2 * 255, max_counter)>>
        ELSE <<0, 0, 0>>

\* The three channels after int(), lines 17-37.
mandelbrot_cycle_channels(counter_value, max_counter) ==
    LET n0 == 3 * counter_value                      \* counter_value, in thirds
        n1 == 3 * counter_value - max_counter        \* counter_value - threshold0
        n2 == 3 * counter_value - 2 * max_counter    \* counter_value - threshold1
    IN  IF counter_value >= 0 /\ n0 < max_counter
        THEN <<TruncDiv(n0 * 255, max_counter), 0, 0>>
        ELSE IF n1 >= 0 /\ n2 < 0
        THEN <<TruncDiv(255 * max_counter - n1 * 255, max_counter),
               TruncDiv(n1 * 255, max_counter), 0>>
        ELSE IF counter_value < max_counter
        THEN <<0, TruncDiv(255 * max_counter - n2 * 255, max_counter),
               TruncDiv(n2 * 255, max_counter)>>
        ELSE <<0, 0, 255>>

\* new_color, lines 39-41.
mandelbrot_cycle_colors(counter_value, max_counter) ==
    LET ch == mandelbrot_cycle_channels(counter_value, max_counter)
    IN  BitOr(BitOr(Shl(ch[1], 16), Shl(ch[2], 8)), ch[3])

generate_565_color(red_byte, green_byte, blue_byte) ==
    BitOr(BitOr(Shl(BitAnd(red_byte, 248), 8), Shl(BitAnd(green_byte, 252), 3)),
          Shr(BitAnd(blue_byte, 248), 3))

\* One step of the recurrence; z and c are pairs of floats.
mandelbrot(z, c) ==
    LET new_z_real == FSub(FAdd(FMul(z[1], z[1]), c[1]), FMul(z[2], z[2]))
        new_z_imag == FAdd(FMul(FMul(FromInt(2), z[1]), z[2]), c[2])
    IN  <<new_z_real, new_z_imag>>

\* The test of line 60 on the value the step returned.
Escaped(z, bound_number) ==
    \/ FGt(z[1], bound_number)
    \/ FLt(z[1], FNeg(bound_number))
    \/ FGt(z[2], bound_number)
    \/ FLt(z[2], FNeg(bound_number))

\* A variant of loop_test: the 1-based number of the step is returned.
loop_test_one_based(z1, iteration, bound_number) ==
    IF Escaped(z1, bound_number)
    THEN [z |-> z1, iteration |-> iteration, returned |-> iteration + 1]
    ELSE [z |-> z1, iteration |-> iteration + 1, returned |-> -1]

\* The state of the loop of lines 58-62: the current z, the loop variable,
\* and the value returned (-1 while the loop is still running).
\* Lines 60-61, on the value z1 the step returned.
loop_test(z1, iteration, bound_number) ==
    IF Escaped(z1, bound_number)
    THEN [z |-> z1, iteration |-> iteration, returned |-> iteration]
    ELSE [z |-> z1, iteration |-> iteration + 1, returned |-> -1]

\* One pass through the loop body, lines 59-61; nothing once it returned.
loop_body(st, c, bound_number) ==
    IF st.returned # -1 THEN st
    ELSE loop_test(mandelbrot(st.z, c), st.iteration, bound_number)

\* n passes through the loop body (split in halves, the first half first,
\* to keep the evaluation shallow).
RECURSIVE loop_times(_, _, _, _)
RECURSIVE loop_rest(_, _, _, _)
loop_times(st, c, bound_number, n) ==
    IF n = 0 THEN st
    ELSE IF n = 1 THEN loop_body(st, c, bound_number)
    ELSE loop_rest(loop_times(st, c, bound_number, n \div 2),
                   c, bound_number, n - n \div 2)

loop_rest(half, c, bound_number, n) ==
    IF half.returned # -1 THEN half ELSE loop_times(half, c, bound_number, n)

\* Line 62 after the loop, or the value the loop returned.
loop_result(st, iterations) ==
    IF st.returned # -1 THEN st.returned ELSE iterations + 1

\* for iteration in range(iterations): ...; return iterations+1
mandelbrot_iter(z, c, bound_number, iterations) ==
    loop_result(loop_times([z |-> z, iteration |-> 0, returned |-> -1],
                           c, bound_number, iterations),
                iterations)

(***************************************************************************)
(* rgb_nametag.py: the colour cycle and the quantizer.                     *)
(***************************************************************************)
\* A variant of rgb_cycle_channels: the last segment is measured from
\* threshold0 instead of threshold1.
rgb_cycle_channels_from_threshold0(counter_value, max_counter) ==
    LET n0 == 3 * counter_value
        n1 == 3 * counter_value - max_counter
        n2 == 3 * counter_value - 2 * max_counter
    IN  IF counter_value >= 0 /\ n0 < max_counter
        THEN <<TruncDiv(n0 * 255, max_counter), 0,
               TruncDiv(255 * max_counter - n0 * 255, max_counter)>>
        ELSE IF n1 >= 0 /\ n2 < 0
        THEN <<TruncDiv(255 * max_counter - n1 * 255, max_counter),
               TruncDiv(n1 * 255, max_counter), 0>>
        ELSE <<0, TruncDiv(255 * max_counter - n1 * 255, max_counter),
               TruncDiv(n1 * 255, max_counter)>>

\* The three channels after int(), lines 17-36.
rgb_cycle_channels(counter_value, max_counter) ==
    LET n0 == 3 * counter_value
        n1 == 3 * counter_value - max_counter
        n2 == 3 * counter_value - 2 * max_counter
    IN  IF counter_value >= 0 /\ n0 < max_counter
        THEN <<TruncDiv(n0 * 255, max_counter), 0,
               TruncDiv(255 * max_counter - n0 * 255, max_counter)>>
        ELSE IF n1 >= 0 /\ n2 < 0
        THEN <<TruncDiv(255 * max_counter - n1 * 255, max_counter),
               TruncDiv(n1 * 255, max_counter), 0>>
        ELSE <<0, TruncDiv(255 * max_counter - n2 * 255, max_counter),
               TruncDiv(n2 * 255, max_counter)>>

rgb_cycle_colors(counter_value, max_counter) ==
    LET ch == rgb_cycle_channels(counter_value, max_counter)
    IN  BitOr(BitOr(Shl(ch[1], 16), Shl(ch[2], 8)), ch[3])

rgb_generate_565_color(red_byte, green_byte, blue_byte) ==
    BitOr(BitOr(Shl(BitAnd(red_byte, 248), 8), Shl(BitAnd(green_byte, 252), 3)),
          Shr(BitAnd(blue_byte, 248), 3))

(***************************************************************************)
(* Program constants.                                                      *)
(***************************************************************************)
\* mandelbrot_iter(z, c, 10.0**20, 0xFE)
ITERATIONS == 254
BOUND_NUMBER == FPow(FromInt(10), 20)
\* cycle_colors(iterations, 0xFF)
ESCAPE_MAX_COUNTER == 255
\* self.pixel_shift -= 10
PIXEL_SHIFT_STEP == 10
\* self.bytes_per_pixel = 2
bytes_per_pixel == 2

Apps == {"mandelbrot", "rgb_nametag"}

\* The values styles.MAX_BG_COUNTER is drawn from.
BgCounters == {3 * k : k \in 1..MaxBgThird}

(***************************************************************************)
(* The state.                                                              *)
(***************************************************************************)
VARIABLES
    app,             \* which of the two App classes the object is
    screen_w,        \* the default dimensions of the screen
    screen_h,
    max_bg_counter,  \* styles.MAX_BG_COUNTER
    foreground,      \* BaseApp: "Inactive", "Active" or "Suspended"
    pixel_shift,     \* self.pixel_shift
    x_width,         \* self.x_width
    y_height,        \* self.y_height
    canvas_buffer,   \* self.canvas_buffer: offset -> byte
    canvas,          \* what the display shows: the buffer last handed over
    pc,              \* position of run_foreground: "idle", "scan", "keys"
    x,               \* the loop variables of run_foreground
    y,
    error,           \* the exception run_foreground raised, or "none"
    \* History of the current call of run_foreground:
    writes,          \* the stores into canvas_buffer, <<offset, value>>
    packed,          \* pixel -> the 16-bit colour computed for it
    counter,         \* pixel -> the counter handed to cycle_colors (-1: none)
    signals,         \* the calls of set_buffer: the buffer, and Len(writes)
    \* History of the current activation:
    ticks,           \* calls of run_foreground
    work,            \* pixels written
    first_frame,     \* the buffer at the end of the first call
    resumed,         \* the activation followed a suspension
    \* Application of a pure function to drawn arguments:
    args,
    result

appvars == <<app, screen_w, screen_h, max_bg_counter, foreground, pixel_shift,
             x_width, y_height, canvas_buffer, canvas, pc, x, y, error,
             writes, packed, counter, signals, ticks, work, first_frame,
             resumed>>

vars == <<appvars, args, result>>

\* bytearray(n)
bytearray(n) == [i \in 0..(n - 1) |-> 0]

\* The object before switch_to_foreground has run.
AppInit ==
    /\ foreground = "Inactive"
    /\ pixel_shift = 0
    /\ x_width = 0
    /\ y_height = 0
    /\ canvas_buffer = bytearray(0)
    /\ canvas = bytearray(0)
    /\ pc = "idle"
    /\ x = 0
    /\ y = 0
    /\ error = "none"
    /\ writes = <<>>
    /\ packed = <<>>
    /\ counter = <<>>
    /\ signals = <<>>
    /\ ticks = 0
    /\ work = 0
    /\ first_frame = <<>>
    /\ resumed = FALSE

Init ==
    /\ app \in Apps
    /\ screen_w \in (IF app = "mandelbrot" THEN 1..MaxW ELSE 1..MaxRainbowW)
    /\ screen_h \in 1..MaxH
    \* mandelbrot.py never reads styles.MAX_BG_COUNTER
    /\ max_bg_counter \in (IF app = "mandelbrot" THEN {0} ELSE BgCounters)
    /\ AppInit
    /\ args = <<>>
    /\ result = <<>>

\* The history of a call of run_foreground, at its start.
CallHistoryReset ==
    /\ writes' = <<>>
    /\ packed' = <<>>
    /\ counter' = <<>>
    /\ signals' = <<>>

\* A variant of Activate: pixel_shift is not reset.
Activate_keeps_shift ==
    /\ foreground # "Active"
    /\ foreground' = "Active"
    /\ x_width' = screen_w
    /\ y_height' = screen_h
    /\ canvas_buffer' = bytearray(screen_w * screen_h * bytes_per_pixel)
    /\ canvas' = canvas_buffer'
    /\ pc' = "idle"
    /\ x' = 0
    /\ y' = 0
    /\ CallHistoryReset
    /\ ticks' = 0
    /\ work' = 0
    /\ first_frame' = <<>>
    /\ resumed' = (foreground = "Suspended")
    /\ UNCHANGED <<app, screen_w, screen_h, max_bg_counter, error, pixel_shift,
                   args, result>>

\* switch_to_foreground, the same in both files: the super() call makes the
\* app the foreground app; then lines 131-146 (mandelbrot.py).
Activate ==
    /\ foreground # "Active"
    /\ foreground' = "Active"
    /\ pixel_shift' = 0
    /\ x_width' = screen_w
    /\ y_height' = screen_h
    /\ canvas_buffer' = bytearray(screen_w * screen_h * bytes_per_pixel)
    /\ canvas' = canvas_buffer'
    /\ pc' = "idle"
    /\ x' = 0
    /\ y' = 0
    /\ CallHistoryReset
    /\ ticks' = 0
    /\ work' = 0
    /\ first_frame' = <<>>
    /\ resumed' = (foreground = "Suspended")
    /\ UNCHANGED <<app, screen_w, screen_h, max_bg_counter, error, args, result>>

mandelbrot_switch_to_foreground ==
    /\ app = "mandelbrot"
    /\ Activate

rgb_switch_to_foreground ==
    /\ app = "rgb_nametag"
    /\ Activate

\* The scheduler calls run_foreground of the foreground app, one call at a
\* time.
Scheduled ==
    /\ foreground = "Active"
    /\ pc = "idle"
    /\ error = "none"
    /\ ticks < MaxTicks

\* self.canvas.set_buffer(self.canvas_buffer, ...)
set_buffer ==
    /\ canvas' = canvas_buffer
    /\ signals' = Append(signals, [buffer |-> canvas_buffer, nwrites |-> Len(writes)])

\* self.badge.display.clear(): nothing of the frame stays on the display.
display_clear == canvas' = bytearray(0)

\* self.switch_to_background(), inherited from BaseApp: the app leaves the
\* foreground and is no longer scheduled.
switch_to_background == foreground' = "Suspended"

\* Lines 109-117 (mandelbrot.py), 84-92 (rgb_nametag.py): the five function
\* keys are polled; any of them clears the display and calls
\* switch_to_background.
PollKeys ==
    /\ pc = "keys"
    /\ \E f1, f2, f3, f4, f5 \in BOOLEAN :
          IF f1 \/ f2 \/ f3 \/ f4 \/ f5
          THEN /\ display_clear
               /\ switch_to_background
          ELSE UNCHANGED <<canvas, foreground>>
    /\ pc' = "idle"
    /\ UNCHANGED <<app, screen_w, screen_h, max_bg_counter, pixel_shift, x_width,
                   y_height, canvas_buffer, x, y, error, writes, packed, counter,
                   signals, ticks, work, first_frame, resumed, args, result>>

(***************************************************************************)
(* Stores into the bytearray.  A store outside the buffer raises           *)
(* IndexError, a value outside 0..255 raises ValueError.                   *)
(***************************************************************************)
StoreOK(buf, w) == w[1] \in DOMAIN buf /\ w[2] \in 0..255

\* The stores ws[1], ..., ws[n], in this order.
RECURSIVE StoreAll(_, _, _)
StoreAll(buf, ws, n) ==
    IF n = 0 THEN buf
    ELSE [StoreAll(buf, ws, n - 1) EXCEPT ![ws[n][1]] = ws[n][2]]

\* The exception the stores ws raise, or "none".
StoreError(buf, ws) ==
    IF \A i \in 1..Len(ws) : StoreOK(buf, ws[i]) THEN "none"
    ELSE IF \E i \in 1..Len(ws) : ws[i][1] \notin DOMAIN buf THEN "IndexError"
    ELSE "ValueError"

(***************************************************************************)
(* mandelbrot.py, run_foreground.                                          *)
(***************************************************************************)
\* A variant of mandelbrot_graph_counter: only the pixel on both axes is
\* left out.
mandelbrot_graph_counter_and(graph_x, graph_y, h) ==
    IF graph_x[1] = 0 /\ graph_y[1] = 0 THEN -1
    ELSE mandelbrot_iter(<<FromInt(0), FromInt(0)>>,
                         <<FDiv(FMul(FromInt(2), graph_x), FromInt(h)),
                           FDiv(FMul(FromInt(2), graph_y), FromInt(h))>>,
                         BOUND_NUMBER, ITERATIONS)

\* Lines 85-91: the counter of a pixel with graph coordinates graph_x and
\* graph_y, or -1 for a pixel of the two axes, for which nothing is evaluated.
mandelbrot_graph_counter(graph_x, graph_y, h) ==
    IF graph_x[1] = 0 \/ graph_y[1] = 0 THEN -1
    ELSE mandelbrot_iter(<<FromInt(0), FromInt(0)>>,
                         <<FDiv(FMul(FromInt(2), graph_x), FromInt(h)),
                           FDiv(FMul(FromInt(2), graph_y), FromInt(h))>>,
                         BOUND_NUMBER, ITERATIONS)

\* Lines 78-91: the counter of pixel (px, py) of a w x h screen.
mandelbrot_pixel_counter(w, h, px, py) ==
    mandelbrot_graph_counter(FSub(FromInt(px), FDiv(FromInt(w), FromInt(2))),
                             FSub(FDiv(FromInt(h), FromInt(2)), FromInt(py)),
                             h)

\* mandelbrot_pixel_counter, tabulated: the counter of a pixel depends on
\* the pixel and the screen only, and is evaluated once.
PixelCounter ==
    [q \in {<<w, h, px, py>> : w \in 1..MaxW, h \in 1..MaxH,
                               px \in 0..(MaxW - 1), py \in 0..(MaxH - 1)} |->
        IF q[3] < q[1] /\ q[4] < q[2]
        THEN mandelbrot_pixel_counter(q[1], q[2], q[3], q[4])
        ELSE -1] @@ <<>>

\* Lines 94-95: the 16-bit colour of a counter.
mandelbrot_color(iterations) ==
    LET color_24bit == mandelbrot_cycle_colors(iterations, ESCAPE_MAX_COUNTER)
    IN  generate_565_color(BitAnd(Shr(color_24bit, 16), 255),
                           BitAnd(Shr(color_24bit, 8), 255),
                           BitAnd(color_24bit, 255))

\* A variant of mandelbrot_stores: the high byte first.
mandelbrot_stores_swapped(px, py, w, color) ==
    LET upper_color_byte == Shr(color, 8)
        lower_color_byte == BitAnd(color, 255)
    IN  << <<2 * px + w * 2 * py, upper_color_byte>>,
           <<2 * px + 1 + w * 2 * py, lower_color_byte>> >>

\* Lines 86-87 and 98-101: the two stores of pixel (px, py).
mandelbrot_stores(px, py, w, color) ==
    LET upper_color_byte == Shr(color, 8)
        lower_color_byte == BitAnd(color, 255)
    IN  << <<2 * px + w * 2 * py, lower_color_byte>>,
           <<2 * px + 1 + w * 2 * py, upper_color_byte>> >>

\* A variant of mandelbrot_run_foreground: only the first call of an
\* activation scans.
mandelbrot_run_foreground_once ==
    /\ app = "mandelbrot"
    /\ Scheduled
    /\ ticks' = ticks + 1
    /\ IF ticks = 0
       THEN /\ pc' = "scan"
            /\ x' = 0
            /\ y' = 0
            /\ CallHistoryReset
       ELSE /\ pc' = "keys"
            /\ UNCHANGED <<x, y, writes, packed, counter, signals>>
    /\ UNCHANGED <<app, screen_w, screen_h, max_bg_counter, foreground,
                   pixel_shift, x_width, y_height, canvas_buffer, canvas, error,
                   work, first_frame, resumed, args, result>>

\* The scheduler's call: the scan starts at its first column.
mandelbrot_run_foreground ==
    /\ app = "mandelbrot"
    /\ Scheduled
    /\ pc' = "scan"
    /\ x' = 0
    /\ y' = 0
    /\ ticks' = ticks + 1
    /\ CallHistoryReset
    /\ UNCHANGED <<app, screen_w, screen_h, max_bg_counter, foreground,
                   pixel_shift, x_width, y_height, canvas_buffer, canvas, error,
                   work, first_frame, resumed, args, result>>

\* Lines 86-87 and 100-101: the stores ws of pixel (x, y), whose counter is
\* iterations and whose colour is color.
mandelbrot_store(iterations, color, ws) ==
    IF StoreError(canvas_buffer, ws) = "none"
    THEN /\ canvas_buffer' = StoreAll(canvas_buffer, ws, 2)
         /\ writes' = writes \o ws
         /\ packed' = (<<x, y>> :> color) @@ packed
         /\ counter' = (<<x, y>> :> iterations) @@ counter
         /\ work' = work + 1
         /\ y' = y + 1
         /\ UNCHANGED <<pc, error>>
    ELSE /\ error' = StoreError(canvas_buffer, ws)
         /\ pc' = "idle"
         /\ UNCHANGED <<canvas_buffer, writes, packed, counter, work, y>>

\* Lines 85-101 for a pixel whose counter is iterations (-1: on an axis).
mandelbrot_draw(iterations, color) ==
    mandelbrot_store(iterations, color, mandelbrot_stores(x, y, x_width, color))

mandelbrot_plot(iterations) ==
    mandelbrot_draw(iterations,
                    IF iterations = -1 THEN 0 ELSE mandelbrot_color(iterations))

\* Lines 80-101: one pass through the body of the inner loop.
mandelbrot_pixel ==
    /\ app = "mandelbrot"
    /\ pc = "scan"
    /\ x < x_width
    /\ y < y_height
    /\ mandelbrot_plot(PixelCounter[<<x_width, y_height, x, y>>])
    /\ UNCHANGED <<app, screen_w, screen_h, max_bg_counter, foreground,
                   pixel_shift, x_width, y_height, canvas, x, signals, ticks,
                   first_frame, resumed, args, result>>

\* A variant of mandelbrot_column_done: the display is not told.
mandelbrot_column_done_silent ==
    /\ app = "mandelbrot"
    /\ pc = "scan"
    /\ x < x_width
    /\ y = y_height
    /\ x' = x + 1
    /\ y' = 0
    /\ UNCHANGED <<app, screen_w, screen_h, max_bg_counter, foreground,
                   pixel_shift, x_width, y_height, canvas_buffer, pc, error,
                   writes, packed, counter, ticks, work, first_frame, resumed,
                   args, result, canvas, signals>>

\* Line 103: the column is complete, the display is told.
mandelbrot_column_done ==
    /\ app = "mandelbrot"
    /\ pc = "scan"
    /\ x < x_width
    /\ y = y_height
    /\ set_buffer
    /\ x' = x + 1
    /\ y' = 0
    /\ UNCHANGED <<app, screen_w, screen_h, max_bg_counter, foreground,
                   pixel_shift, x_width, y_height, canvas_buffer, pc, error,
                   writes, packed, counter, ticks, work, first_frame, resumed,
                   args, result>>

\* Line 106: the scan is complete, the display is told once more.
mandelbrot_scan_done ==
    /\ app = "mandelbrot"
    /\ pc = "scan"
    /\ x = x_width
    /\ set_buffer
    /\ pc' = "keys"
    /\ first_frame' = IF ticks = 1 THEN canvas_buffer ELSE first_frame
    /\ UNCHANGED <<app, screen_w, screen_h, max_bg_counter, foreground,
                   pixel_shift, x_width, y_height, canvas_buffer, x, y, error,
                   writes, packed, counter, ticks, work, resumed, args, result>>

\* Lines 109-117.
mandelbrot_keys ==
    /\ app = "mandelbrot"
    /\ PollKeys

(***************************************************************************)
(* rgb_nametag.py, run_foreground.                                         *)
(***************************************************************************)
\* Line 62: the counter of column px.
rgb_counter(px, shift, w) == (px + shift) % w

\* Lines 62-69: the 16-bit colour of a counter.
rgb_color(counter_value, max_counter) ==
    LET color_24bit == rgb_cycle_colors(counter_value, max_counter)
    IN  rgb_generate_565_color(BitAnd(Shr(color_24bit, 16), 255),
                               BitAnd(Shr(color_24bit, 8), 255),
                               BitAnd(color_24bit, 255))

\* Lines 72-78: the stores of column px, rows 0 .. h-1 in this order.
rgb_stores(px, w, h, color) ==
    LET upper_color_byte == Shr(color, 8)
        lower_color_byte == BitAnd(color, 255)
    IN  [k \in 1..(2 * h) |->
            LET py == (k - 1) \div 2
            IN  IF k % 2 = 1
                THEN <<2 * px + w * 2 * py, lower_color_byte>>
                ELSE <<2 * px + 1 + w * 2 * py, upper_color_byte>>]

\* A variant of rgb_run_foreground: the phase moves the other way.
rgb_run_foreground_forward ==
    /\ app = "rgb_nametag"
    /\ Scheduled
    /\ pixel_shift' = pixel_shift + PIXEL_SHIFT_STEP
    /\ pc' = "scan"
    /\ x' = 0
    /\ y' = 0
    /\ ticks' = ticks + 1
    /\ CallHistoryReset
    /\ UNCHANGED <<app, screen_w, screen_h, max_bg_counter, foreground, x_width,
                   y_height, canvas_buffer, canvas, error, work, first_frame,
                   resumed, args, result>>

\* Line 57: the scheduler's call; the phase moves before anything is drawn.
rgb_run_foreground ==
    /\ app = "rgb_nametag"
    /\ Scheduled
    /\ pixel_shift' = pixel_shift - PIXEL_SHIFT_STEP
    /\ pc' = "scan"
    /\ x' = 0
    /\ y' = 0
    /\ ticks' = ticks + 1
    /\ CallHistoryReset
    /\ UNCHANGED <<app, screen_w, screen_h, max_bg_counter, foreground, x_width,
                   y_height, canvas_buffer, canvas, error, work, first_frame,
                   resumed, args, result>>

\* Lines 60-78: one pass through the body of the loop over the columns.
rgb_column ==
    /\ app = "rgb_nametag"
    /\ pc = "scan"
    /\ x < x_width
    /\ LET counter_value == rgb_counter(x, pixel_shift, x_width)
           color         == rgb_color(counter_value, max_bg_counter)
           ws            == rgb_stores(x, x_width, y_height, color)
       IN  IF StoreError(canvas_buffer, ws) = "none"
           THEN /\ canvas_buffer' = StoreAll(canvas_buffer, ws, Len(ws))
                /\ writes' = writes \o ws
                /\ packed' = [p \in {x} \X (0..(y_height - 1)) |-> color] @@ packed
                /\ counter' = [p \in {x} \X (0..(y_height - 1)) |-> counter_value]
                              @@ counter
                /\ work' = work + y_height
                /\ x' = x + 1
                /\ UNCHANGED <<pc, error>>
           ELSE /\ error' = StoreError(canvas_buffer, ws)
                /\ pc' = "idle"
                /\ UNCHANGED <<canvas_buffer, writes, packed, counter, work, x>>
    /\ UNCHANGED <<app, screen_w, screen_h, max_bg_counter, foreground,
                   pixel_shift, x_width, y_height, canvas, y, signals, ticks,
                   first_frame, resumed, args, result>>

\* Line 81: the frame is complete, the display is told.
rgb_frame_done ==
    /\ app = "rgb_nametag"
    /\ pc = "scan"
    /\ x = x_width
    /\ set_buffer
    /\ pc' = "keys"
    /\ first_frame' = IF ticks = 1 THEN canvas_buffer ELSE first_frame
    /\ UNCHANGED <<app, screen_w, screen_h, max_bg_counter, foreground,
                   pixel_shift, x_width, y_height, canvas_buffer, x, y, error,
                   writes, packed, counter, ticks, work, resumed, args, result>>

\* Lines 84-92.
rgb_keys ==
    /\ app = "rgb_nametag"
    /\ PollKeys

Next ==
    \/ mandelbrot_switch_to_foreground
    \/ mandelbrot_run_foreground
    \/ mandelbrot_pixel
    \/ mandelbrot_column_done
    \/ mandelbrot_scan_done
    \/ mandelbrot_keys
    \/ rgb_switch_to_foreground
    \/ rgb_run_foreground
    \/ rgb_column
    \/ rgb_frame_done
    \/ rgb_keys

Spec == Init /\ [][Next]_vars

(***************************************************************************)
(* The escape-time evaluator applied to drawn arguments.  The coordinates  *)
(* are drawn in halves: <<n, m>> stands for the point (n/2, m/2).          *)
(***************************************************************************)
IterHalves == (-4..4) \cup {200}

IterStarts == {-2, 0, 1}

IterBounds == {2, 3}

\* The object is not used while a pure function is applied.
IdleApp ==
    /\ app = "mandelbrot"
    /\ screen_w = 1
    /\ screen_h = 1
    /\ max_bg_counter = 0
    /\ AppInit

Point(p) == <<FDiv(FromInt(p[1]), FromInt(2)), FDiv(FromInt(p[2]), FromInt(2))>>

InitIter ==
    /\ IdleApp
    /\ args \in [z : IterStarts \X IterStarts, c : IterHalves \X IterHalves,
                 bound_number : IterBounds, iterations : 0..MaxIter]
    /\ result = <<>>

apply_mandelbrot_iter ==
    /\ result = <<>>
    /\ result' = [value |-> mandelbrot_iter(Point(args.z), Point(args.c),
                                            FromInt(args.bound_number),
                                            args.iterations)]
    /\ UNCHANGED <<appvars, args>>

NextIter == apply_mandelbrot_iter

SpecIter == InitIter /\ [][NextIter]_vars

(***************************************************************************)
(* The two colour cycles applied to drawn arguments.                       *)
(***************************************************************************)
CycleMaxima == {3 * k : k \in 1..MaxThird}

InitCycle ==
    /\ IdleApp
    /\ args \in {[counter_value |-> v, max_counter |-> m] :
                    v \in 0..(3 * MaxThird + 1), m \in CycleMaxima}
    /\ args.counter_value <= args.max_counter + 1
    /\ result = <<>>

apply_mandelbrot_cycle_colors ==
    /\ result = <<>>
    /\ result' = [fn |-> "mandelbrot",
                  channels |-> mandelbrot_cycle_channels(args.counter_value,
                                                         args.max_counter),
                  color |-> mandelbrot_cycle_colors(args.counter_value,
                                                    args.max_counter)]
    /\ UNCHANGED <<appvars, args>>

apply_rgb_cycle_colors ==
    /\ result = <<>>
    /\ result' = [fn |-> "rgb_nametag",
                  channels |-> rgb_cycle_channels(args.counter_value,
                                                  args.max_counter),
                  color |-> rgb_cycle_colors(args.counter_value,
                                             args.max_counter)]
    /\ UNCHANGED <<appvars, args>>

NextCycle ==
    \/ apply_mandelbrot_cycle_colors
    \/ apply_rgb_cycle_colors

SpecCycle == InitCycle /\ [][NextCycle]_vars

(***************************************************************************)
(* Properties.                                                             *)
(***************************************************************************)
\* The pixels of the screen.
Pixels == (0..(x_width - 1)) \X (0..(y_height - 1))

\* The two framebuffer bytes of pixel p in buf, low and high.
LowByte(buf, p) == buf[2 * (p[1] + x_width * p[2])]
HighByte(buf, p) == buf[2 * (p[1] + x_width * p[2]) + 1]

\* The 16-bit word of pixel p in buf.
Word(buf, p) == LowByte(buf, p) + 256 * HighByte(buf, p)

\* C1: every store of run_foreground goes to an offset in [0, W*H*2) and
\* stores a byte in 0..255, and no store raises; once the frame is complete
\* (the fractal's scan, a tick of the rainbow), the byte at offset
\* 2*(x + W*y) is the low byte of the 16-bit colour computed for pixel
\* (x, y) and the byte at offset 2*(x + W*y) + 1 is its high byte.
FramebufferLayout ==
    /\ error = "none"
    /\ \A i \in 1..Len(writes) :
          /\ writes[i][1] \in 0..(x_width * y_height * 2 - 1)
          /\ writes[i][2] \in 0..255
    /\ pc = "keys" =>
          \A p \in Pixels :
             /\ p \in DOMAIN packed
             /\ packed[p] \in 0..65535
             /\ LowByte(canvas_buffer, p) = packed[p] % 256
             /\ HighByte(canvas_buffer, p) = packed[p] \div 256

FramebufferLayoutWitness ==
    /\ pc = "keys"
    /\ x_width >= 2
    /\ y_height >= 2
    /\ \E p \in DOMAIN packed : packed[p] % 256 # packed[p] \div 256

\* C2: a call of the rainbow's run_foreground first moves the phase by
\* exactly -10 (so the phase is -10 times the number of calls), then gives
\* every row of column x the 16-bit colour of the scroll cycle at
\* (x + phase) mod W with max = MAX_BG_COUNTER, then calls set_buffer exactly
\* once, on the complete frame.  With W = 12 and MAX_BG_COUNTER = 12 the
\* first call gives column 0 the colour of counter (0 - 10) mod 12 = 2.
RainbowTick ==
    app = "rgb_nametag" =>
       /\ pixel_shift = -(10 * ticks)
       /\ pc = "scan" => signals = <<>>
       /\ pc = "keys" =>
             /\ Len(signals) = 1
             /\ signals[1].nwrites = 2 * x_width * y_height
             /\ signals[1].buffer = canvas_buffer
             /\ \A p \in Pixels :
                   Word(canvas_buffer, p) =
                      rgb_color((p[1] + pixel_shift) % x_width, max_bg_counter)
       /\ (pc = "keys" /\ x_width = 12 /\ max_bg_counter = 12 /\ ticks = 1) =>
             \A p \in Pixels :
                p[1] = 0 => Word(canvas_buffer, p) = rgb_color(2, 12)

RainbowTickWitness ==
    /\ app = "rgb_nametag"
    /\ pc = "keys"
    /\ x_width = 12
    /\ max_bg_counter = 12
    /\ ticks = 1
    /\ Word(canvas_buffer, <<0, 0>>) # 0

\* C3, as claimed: in one activation the fractal writes the W x H pixels of
\* one scan and no more.
FractalScansOnce ==
    app = "mandelbrot" => work <= x_width * y_height

\* C3, amended: every call of the fractal's run_foreground performs one full
\* scan (W*H pixels, W+1 calls of set_buffer); the scans after the first
\* store the values that are there already, so the framebuffer never
\* differs from the frame of the first scan.
FractalScansEveryTick ==
    app = "mandelbrot" =>
       /\ pc = "scan" =>
             work = (ticks - 1) * x_width * y_height + x * y_height + y
       /\ pc = "keys" =>
             /\ work = ticks * x_width * y_height
             /\ Len(signals) = x_width + 1
       /\ (pc = "idle" /\ foreground = "Active") =>
             work = ticks * x_width * y_height
       /\ ticks >= 2 => canvas_buffer = first_frame

FractalScansEveryTickWitness ==
    /\ app = "mandelbrot"
    /\ pc = "keys"
    /\ ticks = 2
    /\ \E p \in Pixels : Word(canvas_buffer, p) # 0

\* The offset of the k-th store of a scan that goes through the columns
\* left to right and through each column top to bottom, low byte first.
ScanOffset(k) ==
    LET px == ((k - 1) \div 2) \div y_height
        py == ((k - 1) \div 2) % y_height
    IN  2 * (px + x_width * py) + ((k - 1) % 2)

\* C4: a scan of the fractal goes through the columns x = 0..W-1 in
\* increasing order and through the rows of a column top to bottom; it calls
\* set_buffer after every column, when all of the column's rows are written,
\* and once more after the last column, W + 1 calls in all; at the call
\* after column x the pixels of the columns 0..x hold the values they keep
\* to the end of the scan.
ProgressiveReveal ==
    app = "mandelbrot" =>
       /\ \A k \in 1..Len(writes) : writes[k][1] = ScanOffset(k)
       /\ pc = "scan" =>
             /\ Len(signals) = x
             /\ Len(writes) = 2 * (x * y_height + y)
       /\ pc = "keys" =>
             /\ Len(signals) = x_width + 1
             /\ signals[x_width + 1].nwrites = 2 * x_width * y_height
             /\ signals[x_width + 1].buffer = canvas_buffer
       /\ \A i \in 1..Len(signals) :
             i <= x_width =>
                /\ signals[i].nwrites = 2 * y_height * i
                /\ \A p \in Pixels :
                      p[1] < i =>
                         Word(signals[i].buffer, p) = Word(canvas_buffer, p)

ProgressiveRevealWitness ==
    /\ app = "mandelbrot"
    /\ pc = "keys"
    /\ x_width >= 3
    /\ y_height >= 2
    /\ signals[1].buffer # canvas_buffer

\* C5: the app leaves the foreground only from the key poll at the end of
\* run_foreground, when the frame is completely written and handed to the
\* display, and it is then suspended; every activation starts with
\* pixel_shift = 0 and a framebuffer of W*H*2 zero bytes.
Lifecycle ==
    [][/\ (foreground = "Active" /\ foreground' # "Active") =>
             /\ foreground' = "Suspended"
             /\ pc = "keys"
             /\ Len(writes) = 2 * x_width * y_height
             /\ signals # <<>>
             /\ signals[Len(signals)].nwrites = Len(writes)
             /\ signals[Len(signals)].buffer = canvas_buffer
       /\ (foreground # "Active" /\ foreground' = "Active") =>
             /\ pixel_shift' = 0
             /\ ticks' = 0
             /\ x_width' = screen_w
             /\ y_height' = screen_h
             /\ DOMAIN canvas_buffer' = 0..(screen_w * screen_h * 2 - 1)
             /\ \A i \in DOMAIN canvas_buffer' : canvas_buffer'[i] = 0
       /\ foreground' # foreground =>
             \/ foreground # "Active" /\ foreground' = "Active"
             \/ foreground = "Active" /\ foreground' = "Suspended"
      ]_vars

LifecycleWitness ==
    /\ resumed
    /\ foreground = "Active"
    /\ app = "rgb_nametag"
    /\ ticks = 1
    /\ pc = "keys"

\* The value of z after k steps of the recurrence from z.
RECURSIVE Orbit(_, _, _)
Orbit(z, c, k) == IF k = 0 THEN z ELSE mandelbrot(Orbit(z, c, k - 1), c)

EscapePaletteEnds ==
    \A m \in CycleMaxima :
       /\ mandelbrot_cycle_colors(m + 1, m) = 255
       /\ mandelbrot_cycle_colors(0, m) = 0

\* C7: the escape-count cycle gives pure blue 0x0000FF for max + 1 and black
\* for 0; in the fractal every counter is in 0..N-1 or is N + 1 (N = 254),
\* and a pixel whose counter is N + 1 (its point did not escape) is off the
\* axes and is stored as 0x001F, the 16-bit pure blue.
NeverEscapedIsBlue ==
    /\ EscapePaletteEnds
    /\ app = "mandelbrot" =>
          \A p \in DOMAIN counter :
             /\ counter[p] \in (0..(ITERATIONS - 1)) \cup {ITERATIONS + 1, -1}
             /\ counter[p] = ITERATIONS + 1 =>
                   /\ 2 * p[1] # x_width
                   /\ 2 * p[2] # y_height
                   /\ LowByte(canvas_buffer, p) = 31
                   /\ HighByte(canvas_buffer, p) = 0

NeverEscapedIsBlueWitness ==
    /\ app = "mandelbrot"
    /\ x_width = 4
    /\ y_height = 4
    /\ <<1, 1>> \in DOMAIN counter
    /\ counter[<<1, 1>>] = ITERATIONS + 1

\* C8: for a counter in [0, max] each of the three channels of either colour
\* cycle is in [0, 255], and the value returned is R * 2^16 + G * 2^8 + B, in
\* [0, 0xFFFFFF].
ChannelRange ==
    (result # <<>> /\ args.counter_value <= args.max_counter) =>
       /\ \A i \in 1..3 : result.channels[i] \in 0..255
       /\ result.color \in 0..16777215
       /\ result.color = 65536 * result.channels[1] + 256 * result.channels[2]
                         + result.channels[3]

ChannelRangeWitness ==
    /\ result # <<>>
    /\ result.fn = "rgb_nametag"
    /\ args.max_counter = 255
    /\ args.counter_value = 255
    /\ result.channels[3] = 255

\* C9: after the fractal has written a pixel with x - W/2 = 0 or H/2 - y = 0,
\* both of its bytes are 0 and neither the evaluator nor the colour cycle was
\* applied for it; for every other pixel they were.  In a 4 x 4 frame these
\* are the pixels with x = 2 or y = 2.
AxisRule ==
    app = "mandelbrot" =>
       \A p \in DOMAIN packed :
          IF 2 * p[1] = x_width \/ 2 * p[2] = y_height
          THEN /\ LowByte(canvas_buffer, p) = 0
               /\ HighByte(canvas_buffer, p) = 0
               /\ counter[p] = -1
          ELSE counter[p] # -1

AxisRuleWitness ==
    /\ app = "mandelbrot"
    /\ pc = "keys"
    /\ x_width = 4
    /\ y_height = 4
    /\ counter[<<2, 1>>] = -1
    /\ counter[<<1, 2>>] = -1
    /\ Word(canvas_buffer, <<1, 1>>) # 0

\* C10: every counter the rainbow hands to the colour cycle is in [0, W-1]
\* and in the domain [0, MAX_BG_COUNTER] of the cycle.
RainbowCounterInDomain ==
    app = "rgb_nametag" =>
       \A p \in DOMAIN counter :
          /\ counter[p] \in 0..(x_width - 1)
          /\ counter[p] \in 0..max_bg_counter

====
